---- MODULE Spec2Model ----
(***************************************************************************)
(* A model of thumbnail_maker.py: the thumbnail derivation functions       *)
(* (convert_to_jpeg, make_thumbnail), one run of the script from           *)
(* check_requirements to the finally clause, and several invocations       *)
(* of the script contending for the lock file.                             *)
(*                                                                         *)
(* Strings that the code takes apart (links, file names) are sequences of  *)
(* one-character strings, so that split, format and re.sub are computed.   *)
(***************************************************************************)
EXTENDS Integers, Sequences, FiniteSets, TLC

VARIABLES
    pc,                 \* position of the run in the script
    argv,               \* sys.argv[1:]
    strShared,          \* whether equal str values are one object (decides `is`)
    lockfile,           \* LOCKFILE.exists()
    workspace,          \* files of WORKSPACE: name -> content
    printed,            \* what print() has written, as a set of messages
    exc,                \* the exception in flight (or the one the finally clause saw)
    status,             \* exit status of the process, -1 while it runs
    journal_shortname,
    mode,
    min_size,
    doi_list,
    image_link_list,
    file_list,
    idx,                \* index of the current item of the loop at pc
    img,
    thumbnail,
    upload_list,
    bucket,             \* keys stored in BUCKET_NAME
    inv                 \* invocations of the script: p -> [pc, exc]

vars == <<pc, argv, strShared, lockfile, workspace, printed, exc, status,
          journal_shortname, mode, min_size, doi_list, image_link_list,
          file_list, idx, img, thumbnail, upload_list, bucket, inv>>

runVars == <<argv, lockfile, workspace, printed, status, journal_shortname,
             doi_list, image_link_list, file_list, idx, upload_list, bucket>>

----------------------------------------------------------------------------
(* Bounds *)

MaxDim == 4          \* source widths and heights 1..MaxDim, plus the spec's sizes
MaxEdge == 3         \* target edges 1..MaxEdge, plus the default
MaxItems == 2        \* articles on the listing page
MaxProcs == 2        \* concurrent invocations of the script

----------------------------------------------------------------------------
(* Python values *)

None == [kind |-> "None"]

NoExc == [kind |-> "none", code |-> 0, at |-> "none"]

SystemExit(code, at) == [kind |-> "SystemExit", code |-> code, at |-> at]

Exception(at) == [kind |-> "Exception", code |-> 0, at |-> at]

KeyboardInterrupt(at) == [kind |-> "KeyboardInterrupt", code |-> 0, at |-> at]

\* `except Exception`: SystemExit and KeyboardInterrupt derive from
\* BaseException and pass through it.
IsException(e) == e.kind = "Exception"

\* a `is` b for two str values: identity, which equal strings have only when
\* the interpreter shares their object.
StrIs(a, b, shared) == a = b /\ shared

Max2(a, b) == IF a >= b THEN a ELSE b

Max3(a, b, c) == Max2(a, Max2(b, c))

\* the result of a call: the value returned or the exception raised, and
\* what it printed
Return(v) == [raise |-> NoExc, ret |-> v, out |-> {}]

Raise(e) == [raise |-> e, ret |-> None, out |-> {}]

exit_error_code == 1

exit_error_mut(message, at) == Raise(Exception(at))

exit_error(message, at) ==
    [raise |-> SystemExit(exit_error_code, at), ret |-> None, out |-> {message}]

----------------------------------------------------------------------------
(* Images: PIL.Image objects, by format, mode, size and what the pixels hold *)

DefaultMinSize == 200

White == <<255, 255, 255>>

Dims == (1..MaxDim) \cup {200, 300, 400}

Edges == (1..MaxEdge) \cup {DefaultMinSize}

ThumbModes == {"pad", "crop", "zoom"}

\* the modes each decoder produces
DecodedModes(format) ==
    CASE format = "JPEG" -> {"RGB", "L", "CMYK"}
      [] format = "PNG" -> {"RGB", "RGBA", "P", "L"}
      [] format = "GIF" -> {"P", "L"}
      [] format = "BMP" -> {"RGB", "P", "L"}

Formats == {"JPEG", "PNG", "GIF", "BMP"}

SourceImage(format, m, x, y) ==
    [kind |-> "image", format |-> format, mode |-> m, size |-> <<x, y>>,
     content |-> [kind |-> "source"]]

SourceImages ==
    UNION {{SourceImage(f, m, x, y) : m \in DecodedModes(f), x \in Dims, y \in Dims}
           : f \in Formats}

\* Image.new(mode, size, color)
ImageNew(m, size, color) ==
    [kind |-> "image", format |-> "None", mode |-> m, size |-> size,
     content |-> [kind |-> "fill", color |-> color]]

\* im.convert(mode=m): a new image, format None
ImageConvert(im, m) == [im EXCEPT !.format = "None", !.mode = m]

\* im.paste(src, (left, upper)): src is converted to im's mode and written
\* over the rectangle of src's size at that corner
ImagePaste(im, src, offset) ==
    [im EXCEPT !.content =
        [kind |-> "paste", color |-> im.content.color,
         box |-> <<offset[1], offset[2],
                   offset[1] + src.size[1], offset[2] + src.size[2]>>]]

\* im.resize(size, filter): a resample of the whole of im
ImageResize(im, size) ==
    [im EXCEPT !.format = "None", !.size = size,
               !.content = [kind |-> "resample",
                            of |-> [size |-> im.size, content |-> im.content]]]

\* ImageOps.fit(im, (w, w), method) with the default centering (0.5, 0.5):
\* the centred window of the target's aspect ratio, resampled to the target.
\* The window's corner falls on half pixels; box2 holds it in half-pixel units.
ImageOpsFit(im, size) ==
    LET x == im.size[1]
        y == im.size[2]
        cw == IF x > y THEN y ELSE x
        ch == cw
    IN  [im EXCEPT !.format = "None", !.size = size,
                   !.content = [kind |-> "resample",
                                of |-> [size |-> <<cw, ch>>,
                                        content |-> [kind |-> "crop",
                                                     box2 |-> <<x - cw, y - ch,
                                                                x + cw, y + ch>>]]]]

\* line 193
pad_size(min_size_, x, y) == Max3(min_size_, x, y)

pad_offset_mut(size, x, y) == <<size - x, size - y>>

\* line 195, the box argument of paste
pad_offset(size, x, y) == <<(size - x) \div 2, (size - y) \div 2>>

pad_resize_mut(im, min_size_) == im

\* line 196
pad_resize(im, min_size_) == ImageResize(im, <<min_size_, min_size_>>)

make_thumbnail(im, min_size_, fill_color, mode_) ==
    IF mode_ = "pad"
    THEN LET x == im.size[1]
             y == im.size[2]
             size == pad_size(min_size_, x, y)
             canvas == ImageNew("RGB", <<size, size>>, fill_color)
             pasted == ImagePaste(canvas, im, pad_offset(size, x, y))
         IN  Return(pad_resize(pasted, min_size_))
    ELSE IF mode_ = "crop"
    THEN Return(ImageOpsFit(im, <<min_size_, min_size_>>))
    ELSE exit_error("Thumbnail mode is invalid.", "make_thumbnail")

convert_to_jpeg(im, shared) ==
    IF ~StrIs(im.format, "JPEG", shared)
    THEN ImageConvert(im, "RGB")
    ELSE im

----------------------------------------------------------------------------
(* The thumbnail derivation on its own: any decoded image, target edge and  *)
(* mode, normalised and then handed to make_thumbnail.                      *)

IdleRun ==
    /\ argv = <<>>
    /\ lockfile = FALSE
    /\ workspace = <<>>
    /\ printed = {}
    /\ status = -1
    /\ journal_shortname = ""
    /\ doi_list = <<>>
    /\ image_link_list = <<>>
    /\ file_list = <<>>
    /\ idx = 0
    /\ upload_list = <<>>
    /\ bucket = {}

InitThumb ==
    /\ IdleRun
    /\ inv = <<>>
    /\ pc = "image_open"
    /\ strShared \in BOOLEAN
    /\ img \in SourceImages
    /\ min_size \in Edges
    /\ mode \in ThumbModes
    /\ thumbnail = None
    /\ exc = NoExc

Normalize ==
    /\ pc = "image_open"
    /\ img' = convert_to_jpeg(img, strShared)
    /\ pc' = "normalized"
    /\ UNCHANGED <<runVars, strShared, mode, min_size, thumbnail, exc, inv>>

Generate ==
    /\ pc = "normalized"
    /\ LET r == make_thumbnail(img, min_size, White, mode)
       IN  /\ thumbnail' = r.ret
           /\ exc' = r.raise
    /\ pc' = "generated"
    /\ UNCHANGED <<runVars, strShared, mode, min_size, img, inv>>

NextThumb == Normalize \/ Generate

SpecThumb == InitThumb /\ [][NextThumb]_vars

----------------------------------------------------------------------------
(* Strings as character sequences *)

\* s.split(sep).pop(): what follows the last sep, all of s when it has none
RECURSIVE SplitPop(_, _)
SplitPop(s, sep) ==
    IF s = <<>> THEN <<>>
    ELSE IF s[Len(s)] = sep THEN <<>>
    ELSE SplitPop(SubSeq(s, 1, Len(s) - 1), sep) \o <<s[Len(s)]>>

EndsWith(s, suffix) ==
    /\ Len(s) >= Len(suffix)
    /\ SubSeq(s, Len(s) - Len(suffix) + 1, Len(s)) = suffix

DropSuffix(s, suffix) == SubSeq(s, 1, Len(s) - Len(suffix))

DotJpg == <<".", "j", "p", "g">>

DotPng == <<".", "p", "n", "g">>

DotTiff == <<".", "t", "i", "f", "f">>

DotBmp == <<".", "b", "m", "p">>

\* line 323: re.sub(r'\.(png|tiff|bmp)$', '.jpg', file)
thumbnail_name(file) ==
    IF EndsWith(file, DotPng) THEN DropSuffix(file, DotPng) \o DotJpg
    ELSE IF EndsWith(file, DotTiff) THEN DropSuffix(file, DotTiff) \o DotJpg
    ELSE IF EndsWith(file, DotBmp) THEN DropSuffix(file, DotBmp) \o DotJpg
    ELSE file

WorkspaceDir == <<"~", "/", "T", "/">>

\* lines 161-164: the name download_image writes to
download_image_name(doi, link) ==
    LET file_extension == SplitPop(SplitPop(link, "/"), ".")
    IN  WorkspaceDir \o doi \o <<".">> \o file_extension

\* lines 246-251: the key upload_file stores under
upload_key(journal, file) ==
    <<"ja-jp/", journal, "/img/articles/">> \o SplitPop(file, "/")

----------------------------------------------------------------------------
(* What the collaborators can deliver *)

Digits == <<"1", "2", "3", "4", "5", "6", "7", "8", "9">>

\* the identifier of the i-th article of the listing page
Doi(i) == <<"s", Digits[i]>>

Extensions ==
    {<<"p", "n", "g">>, <<"j", "p", "g">>, <<"j", "p", "e", "g">>,
     <<"g", "i", "f">>, <<"b", "m", "p">>, <<"t", "i", "f", "f">>,
     <<"P", "N", "G">>}

\* the image asset links of the content API
Links == {<<"h", ":", "/", "/", "m", ".", "n", "/", "i", ".">> \o e : e \in Extensions}

NoLink == <<>>

\* what the downloaded files decode to
RunImages ==
    {SourceImage("JPEG", "L", 400, 300),
     SourceImage("PNG", "RGBA", 1, 1)}

ArgvChoices ==
    {<<>>, <<"nature">>, <<"nature", "pad">>, <<"nature", "crop">>,
     <<"nature", "zoom">>, <<"nature", "pad", "extra">>}

Put(dir, name, content) ==
    [n \in DOMAIN dir \cup {name} |-> IF n = name THEN content ELSE dir[n]]

EmptyDir == <<>>

Downloaded == [kind |-> "download"]

Partial == [kind |-> "partial"]

StaleDir == Put(EmptyDir, WorkspaceDir \o <<"o", ".", "j", "p", "g">>, Downloaded)

os_name == "posix"

----------------------------------------------------------------------------
(* One run of the script, lines 268-345 *)

InitRun ==
    /\ pc = "check_requirements"
    /\ argv \in ArgvChoices
    /\ strShared \in BOOLEAN
    /\ lockfile \in BOOLEAN
    /\ workspace \in {EmptyDir, StaleDir}
    /\ printed = {}
    /\ exc = NoExc
    /\ status = -1
    /\ journal_shortname = ""
    /\ mode = ""
    /\ min_size = DefaultMinSize
    /\ doi_list = <<>>
    /\ image_link_list = <<>>
    /\ file_list = <<>>
    /\ idx = 0
    /\ img = None
    /\ thumbnail = None
    /\ upload_list = <<>>
    /\ bucket = {}
    /\ inv = <<>>

\* an exception leaves the try block for the finally clause
Propagate(r) ==
    /\ printed' = printed \cup r.out
    /\ exc' = r.raise
    /\ pc' = "finally"

\* lines 38-63
check_requirements ==
    /\ pc = "check_requirements"
    /\ IF ~StrIs(os_name, "posix", strShared)
       THEN /\ Propagate(exit_error("This script currently only supports Unix-like OS's.",
                                    "check_requirements"))
            /\ UNCHANGED workspace
       ELSE IF lockfile
       THEN /\ Propagate(exit_error("Thumbnail maker is currently busy. Please try later.",
                                    "check_requirements"))
            /\ UNCHANGED workspace
       ELSE \/ /\ workspace' = EmptyDir
               /\ pc' = "lock"
               /\ UNCHANGED <<printed, exc>>
            \/ /\ Propagate(exit_error("Could not create workspace directory",
                                       "check_requirements"))
               /\ UNCHANGED workspace
    /\ UNCHANGED <<argv, strShared, lockfile, status, journal_shortname, mode,
                   min_size, doi_list, image_link_list, file_list, idx, img,
                   thumbnail, upload_list, bucket, inv>>

\* lines 259-260, called at 272
lock ==
    /\ pc = "lock"
    /\ lockfile' = TRUE
    /\ pc' = "parse_args"
    /\ UNCHANGED <<argv, strShared, workspace, printed, exc, status,
                   journal_shortname, mode, min_size, doi_list, image_link_list,
                   file_list, idx, img, thumbnail, upload_list, bucket, inv>>

UsageMsg == "USAGE: python thumbnail_maker.py <journal_shortname> <mode[crop|pad]>"

\* lines 218-234, called at 273; len(sys.argv) = Len(argv) + 1
parse_args ==
    /\ pc = "parse_args"
    /\ IF Len(argv) + 1 = 3
       THEN /\ journal_shortname' = argv[1]
            /\ mode' = argv[2]
            /\ pc' = "get_html"
            /\ UNCHANGED <<printed, exc>>
       ELSE /\ LET r == IF Len(argv) + 1 > 3
                        THEN exit_error("Entered too many arguments.", "parse_args")
                        ELSE exit_error("Entered too few arguments.", "parse_args")
               IN  Propagate([r EXCEPT !.out = @ \cup {UsageMsg}])
            /\ UNCHANGED <<journal_shortname, mode>>
    /\ UNCHANGED <<argv, strShared, lockfile, workspace, status, min_size,
                   doi_list, image_link_list, file_list, idx, img, thumbnail,
                   upload_list, bucket, inv>>

\* lines 66-82, called at 282
get_html ==
    /\ pc = "get_html"
    /\ \/ /\ pc' = "scrape"
          /\ printed' = printed \cup {"Successfully loaded."}
          /\ UNCHANGED exc
       \/ Propagate(exit_error("urlopen failed", "get_html"))
       \/ Propagate(Raise(Exception("get_html")))
    /\ UNCHANGED <<argv, strShared, lockfile, workspace, status,
                   journal_shortname, mode, min_size, doi_list, image_link_list,
                   file_list, idx, img, thumbnail, upload_list, bucket, inv>>

\* lines 292-304: the scraper returns the identifiers of the page in page
\* order; when it raises, doi_list stays empty as when it finds none
scrape ==
    /\ pc = "scrape"
    /\ \E n \in 0..MaxItems :
          /\ doi_list' = [i \in 1..n |-> Doi(i)]
          /\ IF n = 0
             THEN Propagate(exit_error("Could not scrape HTML", "scrape"))
             ELSE /\ pc' = "get_image_links"
                  /\ UNCHANGED <<printed, exc>>
    /\ UNCHANGED <<argv, strShared, lockfile, workspace, status,
                   journal_shortname, mode, min_size, image_link_list,
                   file_list, idx, img, thumbnail, upload_list, bucket, inv>>

\* lines 111-147, called at 307: a lookup that fails or finds no link is
\* skipped
get_image_links ==
    /\ pc = "get_image_links"
    /\ \/ /\ Propagate(exit_error("Could not connect to Content Hub API",
                                  "get_image_links"))
          /\ UNCHANGED <<image_link_list, idx>>
       \/ \E found \in [1..Len(doi_list) -> Links \cup {NoLink}] :
             /\ image_link_list' =
                    SelectSeq([i \in 1..Len(doi_list) |-> <<doi_list[i], found[i]>>],
                              LAMBDA t : t[2] # NoLink)
             /\ idx' = 1
             /\ pc' = IF image_link_list' = <<>> THEN "bucket_exists" ELSE "download"
             /\ UNCHANGED <<printed, exc>>
    /\ UNCHANGED <<argv, strShared, lockfile, workspace, status,
                   journal_shortname, mode, min_size, doi_list, file_list, img,
                   thumbnail, upload_list, bucket, inv>>

\* lines 150-172, one turn of the loop at 311-313: the name is returned and
\* kept whether or not the file was written
download_image ==
    /\ pc = "download"
    /\ LET doi == image_link_list[idx][1]
           link == image_link_list[idx][2]
           file_name == download_image_name(doi, link)
       IN  /\ \/ /\ workspace' = Put(workspace, file_name, Downloaded)
                 /\ UNCHANGED printed
              \/ /\ UNCHANGED workspace
                 /\ printed' = printed \cup {"ERROR: could not download image"}
              \/ /\ workspace' = Put(workspace, file_name, Partial)
                 /\ printed' = printed \cup {"ERROR: could not download image"}
           /\ file_list' = Append(file_list, file_name)
    /\ IF idx < Len(image_link_list)
       THEN /\ idx' = idx + 1
            /\ pc' = "download"
       ELSE /\ idx' = 1
            /\ pc' = "image_open"
    /\ UNCHANGED <<argv, strShared, lockfile, exc, status, journal_shortname,
                   mode, min_size, doi_list, image_link_list, img, thumbnail,
                   upload_list, bucket, inv>>

\* the for statement at 317 takes the next file, or the loop ends
NextFile ==
    IF idx < Len(file_list)
    THEN /\ idx' = idx + 1
         /\ pc' = "image_open"
    ELSE /\ idx' = 1
         /\ pc' = "bucket_exists"

\* line 318, outside the try of 321
image_open ==
    /\ pc = "image_open"
    /\ LET file == file_list[idx]
       IN  IF file \in DOMAIN workspace /\ workspace[file] = Downloaded
           THEN \/ \E im \in RunImages :
                      /\ img' = im
                      /\ pc' = "convert_to_jpeg"
                      /\ UNCHANGED <<printed, exc>>
                \/ /\ Propagate(Raise(Exception("Image.open")))
                   /\ UNCHANGED img
           ELSE /\ Propagate(Raise(Exception("Image.open")))
                /\ UNCHANGED img
    /\ UNCHANGED <<argv, strShared, lockfile, workspace, status,
                   journal_shortname, mode, min_size, doi_list, image_link_list,
                   file_list, idx, thumbnail, upload_list, bucket, inv>>

\* line 319, outside the try of 321
normalize ==
    /\ pc = "convert_to_jpeg"
    /\ \/ /\ img' = convert_to_jpeg(img, strShared)
          /\ pc' = "make_thumbnail"
          /\ UNCHANGED <<printed, exc>>
       \/ /\ Propagate(Raise(Exception("convert_to_jpeg")))
          /\ UNCHANGED img
    /\ UNCHANGED <<argv, strShared, lockfile, workspace, status,
                   journal_shortname, mode, min_size, doi_list, image_link_list,
                   file_list, idx, thumbnail, upload_list, bucket, inv>>

\* what the try of 321-328 does with the outcome r of a statement in it:
\* an Exception is printed and the loop goes on, anything else propagates
TryItem(r) ==
    IF IsException(r.raise)
    THEN /\ printed' = printed \cup r.out \cup {"str(e)"}
         /\ NextFile
         /\ UNCHANGED exc
    ELSE /\ Propagate(r)
         /\ UNCHANGED idx

\* line 322; paste, resize and fit can raise on a file that does not load
generate ==
    /\ pc = "make_thumbnail"
    /\ \/ LET r == make_thumbnail(img, min_size, White, mode)
          IN  IF r.raise = NoExc
              THEN /\ thumbnail' = r.ret
                   /\ pc' = "save"
                   /\ UNCHANGED <<printed, exc, idx>>
              ELSE /\ TryItem(r)
                   /\ UNCHANGED thumbnail
       \/ /\ mode \in {"pad", "crop"}
          /\ TryItem(Raise(Exception("make_thumbnail")))
          /\ UNCHANGED thumbnail
    /\ UNCHANGED <<argv, strShared, lockfile, workspace, status,
                   journal_shortname, mode, min_size, doi_list, image_link_list,
                   file_list, img, upload_list, bucket, inv>>

\* lines 323-326
save ==
    /\ pc = "save"
    /\ LET filename == thumbnail_name(file_list[idx])
       IN  \/ /\ workspace' = Put(workspace, filename, thumbnail)
              /\ printed' = printed \cup {"Thumbnail is generated."}
              /\ upload_list' = Append(upload_list, filename)
              /\ NextFile
              /\ UNCHANGED exc
           \/ /\ TryItem(Raise(Exception("save")))
              /\ UNCHANGED <<workspace, upload_list>>
    /\ UNCHANGED <<argv, strShared, lockfile, status, journal_shortname, mode,
                   min_size, doi_list, image_link_list, file_list, img,
                   thumbnail, bucket, inv>>

\* lines 332, 335-336
bucket_exists ==
    /\ pc = "bucket_exists"
    /\ \/ /\ pc' = IF upload_list = <<>> THEN "done" ELSE "upload"
          /\ idx' = 1
          /\ UNCHANGED <<printed, exc>>
       \/ /\ Propagate(exit_error("natureasia-static doesn't exist.", "bucket_exists"))
          /\ UNCHANGED idx
       \/ /\ Propagate(Raise(Exception("bucket_exists")))
          /\ UNCHANGED idx
    /\ UNCHANGED <<argv, strShared, lockfile, workspace, status,
                   journal_shortname, mode, min_size, doi_list, image_link_list,
                   file_list, img, thumbnail, upload_list, bucket, inv>>

\* lines 237-256, one turn of the loop at 333-334
upload_file ==
    /\ pc = "upload"
    /\ \/ /\ bucket' = bucket \cup {upload_key(journal_shortname, upload_list[idx])}
          /\ printed' = printed \cup {"Uploaded"}
          /\ IF idx < Len(upload_list)
             THEN /\ idx' = idx + 1
                  /\ pc' = "upload"
             ELSE /\ idx' = idx
                  /\ pc' = "done"
          /\ UNCHANGED exc
       \/ /\ Propagate(exit_error("str(e)", "upload_file"))
          /\ UNCHANGED <<bucket, idx>>
    /\ UNCHANGED <<argv, strShared, lockfile, workspace, status,
                   journal_shortname, mode, min_size, doi_list, image_link_list,
                   file_list, img, thumbnail, upload_list, inv>>

\* lines 263-265
unlock(exists) == FALSE

\* lines 339-340
done ==
    /\ pc = "done"
    /\ printed' = printed \cup {"DONE"}
    /\ lockfile' = unlock(lockfile)
    /\ pc' = "finally"
    /\ UNCHANGED <<argv, strShared, workspace, exc, status, journal_shortname,
                   mode, min_size, doi_list, image_link_list, file_list, idx,
                   img, thumbnail, upload_list, bucket, inv>>

\* lines 341-342: Ctrl-C anywhere in the try block
interrupt ==
    /\ pc \notin {"finally", "exited"}
    /\ printed' = printed \cup {"Aborting..."}
    /\ exc' = KeyboardInterrupt(pc)
    /\ pc' = "finally"
    /\ UNCHANGED <<argv, strShared, lockfile, workspace, status,
                   journal_shortname, mode, min_size, doi_list, image_link_list,
                   file_list, idx, img, thumbnail, upload_list, bucket, inv>>

\* line 345: exit() raises SystemExit(None), which replaces whatever
\* exception the finally clause was entered with
finally_exit(pending) == SystemExit(0, "finally")

\* the status the interpreter ends with when e reaches the top
ExitStatus(e) ==
    IF e.kind = "SystemExit" THEN e.code
    ELSE IF e.kind = "none" THEN 0
    ELSE 1

\* lines 343-345
finally ==
    /\ pc = "finally"
    /\ lockfile' = unlock(lockfile)
    /\ status' = ExitStatus(finally_exit(exc))
    /\ pc' = "exited"
    /\ UNCHANGED <<argv, strShared, workspace, printed, exc, journal_shortname,
                   mode, min_size, doi_list, image_link_list, file_list, idx,
                   img, thumbnail, upload_list, bucket, inv>>

Next ==
    \/ check_requirements
    \/ lock
    \/ parse_args
    \/ get_html
    \/ scrape
    \/ get_image_links
    \/ download_image
    \/ image_open
    \/ normalize
    \/ generate
    \/ save
    \/ bucket_exists
    \/ upload_file
    \/ done
    \/ interrupt
    \/ finally

Spec == InitRun /\ [][Next]_vars

----------------------------------------------------------------------------
(* Several invocations of the script, each at lines 268-345, sharing        *)
(* LOCKFILE. What an invocation does between lock() and the end of the try  *)
(* block (lines 273-339) is one step here.                                  *)

Procs == 1..MaxProcs

InitLock ==
    /\ IdleRun
    /\ pc = "invocations"
    /\ strShared \in BOOLEAN
    /\ exc = NoExc
    /\ mode = ""
    /\ min_size = DefaultMinSize
    /\ img = None
    /\ thumbnail = None
    /\ inv = [p \in Procs |-> [pc |-> "check_requirements", exc |-> NoExc]]

lockFrame ==
    <<pc, argv, strShared, workspace, printed, exc, status, journal_shortname,
      mode, min_size, doi_list, image_link_list, file_list, idx, img, thumbnail,
      upload_list, bucket>>

\* lines 38-63 in invocation p
p_check_requirements(p) ==
    /\ inv[p].pc = "check_requirements"
    /\ IF ~StrIs(os_name, "posix", strShared) \/ lockfile
       THEN inv' = [inv EXCEPT ![p] =
                [pc |-> "finally",
                 exc |-> exit_error("refused", "check_requirements").raise]]
       ELSE \/ inv' = [inv EXCEPT ![p].pc = "lock"]
            \/ inv' = [inv EXCEPT ![p] =
                   [pc |-> "finally",
                    exc |-> exit_error("Could not create workspace directory",
                                       "check_requirements").raise]]
    /\ UNCHANGED <<lockfile, lockFrame>>

\* line 272 in invocation p
p_lock(p) ==
    /\ inv[p].pc = "lock"
    /\ lockfile' = TRUE
    /\ inv' = [inv EXCEPT ![p].pc = "pipeline"]
    /\ UNCHANGED lockFrame

\* lines 273-340 in invocation p: the pipeline ends with DONE and unlock(),
\* or with exit_error or an exception somewhere in it
p_pipeline(p) ==
    /\ inv[p].pc = "pipeline"
    /\ \/ /\ lockfile' = unlock(lockfile)
          /\ inv' = [inv EXCEPT ![p].pc = "finally"]
       \/ /\ UNCHANGED lockfile
          /\ \E e \in {exit_error("", "pipeline").raise, Exception("pipeline")} :
                inv' = [inv EXCEPT ![p] = [pc |-> "finally", exc |-> e]]
    /\ UNCHANGED lockFrame

\* lines 341-342 in invocation p
p_interrupt(p) ==
    /\ inv[p].pc \notin {"finally", "exited"}
    /\ inv' = [inv EXCEPT ![p] = [pc |-> "finally",
                                  exc |-> KeyboardInterrupt(inv[p].pc)]]
    /\ UNCHANGED <<lockfile, lockFrame>>

\* lines 343-345 in invocation p
p_finally(p) ==
    /\ inv[p].pc = "finally"
    /\ lockfile' = unlock(lockfile)
    /\ inv' = [inv EXCEPT ![p].pc = "exited"]
    /\ UNCHANGED lockFrame

NextLock ==
    \E p \in Procs :
        \/ p_check_requirements(p)
        \/ p_lock(p)
        \/ p_pipeline(p)
        \/ p_interrupt(p)
        \/ p_finally(p)

SpecLock == InitLock /\ [][NextLock]_vars

----------------------------------------------------------------------------
(* The claims *)

\* C1: for every source image of width and height >= 1 and every positive
\* target edge, make_thumbnail in pad mode and in crop mode returns an image
\* whose width and height both equal the target edge.
C1_ThumbnailIsSquare ==
    (pc = "generated" /\ mode \in {"pad", "crop"}) =>
        /\ exc = NoExc
        /\ thumbnail.size = <<min_size, min_size>>

\* a wide source, larger than the edge on one axis and smaller on the other
C1_Witness ==
    /\ pc = "generated"
    /\ mode = "pad"
    /\ img.size[1] > min_size
    /\ img.size[2] < min_size
    /\ thumbnail.size = <<min_size, min_size>>

\* C4: every image the normalizer returns is in RGB mode, for every decoded
\* format and pixel mode; so is every thumbnail produced from it.
C4_NormalizedIsRGB ==
    /\ pc \in {"normalized", "generated"} => img.mode = "RGB"
    /\ (pc = "generated" /\ mode \in {"pad", "crop"}) => thumbnail.mode = "RGB"

\* C9: in pad mode the canvas side is max(targetEdge, x, y); the source is
\* pasted unscaled at ((size - x) // 2, (size - y) // 2), inside the canvas
\* and centred, the leading margin equal to the trailing one or one less;
\* 400x300 at edge 200 gives a 400 canvas and offset (0, 50), 1x1 gives a 200
\* canvas and the pixel at (99, 99).
C9_PadGeometry ==
    (pc = "generated" /\ mode = "pad") =>
        LET x == img.size[1]
            y == img.size[2]
            canvas == thumbnail.content.of
            size == canvas.size[1]
            box == canvas.content.box
        IN  /\ canvas.size = <<size, size>>
            /\ size \in {min_size, x, y}
            /\ size >= min_size /\ size >= x /\ size >= y
            /\ canvas.content.kind = "paste"
            /\ box[1] >= 0 /\ box[2] >= 0
            /\ box[3] <= size /\ box[4] <= size
            /\ box[3] - box[1] = x /\ box[4] - box[2] = y
            /\ (size - box[3]) - box[1] \in {0, 1}
            /\ (size - box[4]) - box[2] \in {0, 1}
            /\ (x = 400 /\ y = 300 /\ min_size = 200) =>
                   (size = 400 /\ box[1] = 0 /\ box[2] = 50)
            /\ (x = 1 /\ y = 1 /\ min_size = 200) =>
                   (size = 200 /\ box = <<99, 99, 100, 100>>)

\* the 400x300 source of the spec's end-to-end scenario, padded
C9_Witness ==
    /\ pc = "generated"
    /\ mode = "pad"
    /\ img.size = <<400, 300>>
    /\ min_size = 200
    /\ thumbnail.content.of.size = <<400, 400>>
    /\ thumbnail.content.of.content.box = <<0, 50, 400, 350>>

\* C2: a failure at the decode, normalize or generate stage of one item is
\* caught and only that item is excluded: no such failure on a downloaded
\* file leaves the thumbnail loop, so every later item is still processed.
C2_ItemFailureIsCaught ==
    ~(/\ exc.kind = "Exception"
      /\ exc.at \in {"Image.open", "convert_to_jpeg", "make_thumbnail"}
      /\ file_list[idx] \in DOMAIN workspace
      /\ workspace[file_list[idx]] = Downloaded)

\* C3: a mode other than 'pad' or 'crop' is a hard failure: make_thumbnail
\* returns no thumbnail, the per-item handler does not swallow the failure,
\* the run aborts with nothing saved or added to the upload list, and no
\* upload is performed.
C3_InvalidModeAborts ==
    [][/\ (pc = "make_thumbnail" /\ mode \notin {"pad", "crop"}) =>
              /\ pc' = "finally"
              /\ exc'.kind \in {"SystemExit", "KeyboardInterrupt"}
              /\ thumbnail' = None
       /\ (pc' \notin {"check_requirements", "lock", "parse_args"}
             /\ mode' \notin {"pad", "crop"}) =>
              /\ upload_list' = <<>>
              /\ bucket' = {}
              /\ \A n \in DOMAIN workspace' : workspace'[n].kind # "image"
              /\ pc' \notin {"save", "upload"}]_vars

\* make_thumbnail was called with the mode "zoom" on a decoded file
C3_Witness ==
    /\ pc = "finally"
    /\ mode = "zoom"
    /\ img \in RunImages \cup {convert_to_jpeg(im, strShared) : im \in RunImages}
    /\ exc = SystemExit(1, "make_thumbnail")
    /\ thumbnail = None
    /\ upload_list = <<>>

\* C5: whatever the extension of the downloaded file, the thumbnail is queued
\* for upload under the source name with the extension replaced by '.jpg':
\* every queued name ends in '.jpg'.
C5_QueuedNameEndsInJpg ==
    \A i \in 1..Len(upload_list) : EndsWith(upload_list[i], DotJpg)

\* C6: a failure of a collaborator on one item (lookup, download, upload) is
\* recovered by skipping that item: it never ends the run.
C6_CollaboratorFailureIsSkipped ==
    /\ ~(exc.kind = "SystemExit" /\ exc.at = "upload_file")
    /\ ~(/\ exc.kind = "Exception"
         /\ exc.at = "Image.open"
         /\ \/ file_list[idx] \notin DOMAIN workspace
            \/ workspace[file_list[idx]] = Partial)

\* C8: started with fewer or more than two positional arguments, the script
\* prints the usage message and terminates with a non-zero status (stated of
\* the runs that get as far as parse_args).
C8_UsageAndNonZeroStatus ==
    (pc = "exited" /\ Len(argv) # 2 /\ exc.at = "parse_args" /\ exc.kind = "SystemExit") =>
        /\ UsageMsg \in printed
        /\ status # 0

\* C7: at most one invocation at a time is past check_requirements and lock()
\* and executing the pipeline.
C7_MutualExclusion ==
    Cardinality({p \in Procs : inv[p].pc = "pipeline"}) <= 1

\* C10: an invocation that ends without having run lock() (refused by
\* check_requirements, or failing or interrupted before lock()) leaves the
\* lock file in place.
C10_OnlyOwnerRemovesLock ==
    [][\A p \in Procs :
          (/\ inv[p].pc = "finally"
           /\ inv'[p].pc = "exited"
           /\ inv[p].exc.at \in {"check_requirements", "lock"}
           /\ lockfile)
          => lockfile']_vars

====
